---- MODULE Spec2Model ----
(***************************************************************************)
(* The threaded prefix crawler of src/venv/api_name_extractor.py: the      *)
(* module globals, the worker threads (worker / process_prefix /           *)
(* fetch_names), the main thread (main / load_progress / save_progress),   *)
(* the two files on disk and the remote autocomplete service.              *)
(***************************************************************************)
EXTENDS Naturals, Sequences, FiniteSets, TLC

(* ------------------------------ constants ------------------------------ *)

MAX_RETRIES == 5

MAX_DEPTH == 3

\* MIN_DELAY = 1.5 and MAX_DELAY = 5.0 seconds, in twentieths of a second.
MIN_DELAY == 30

MAX_DELAY == 100

\* get_delay_factor: rate_limit_hits / 10 reaches 1.0 at ten hits.
HITS_FOR_MAX_DELAY == 10

\* Number of worker threads (3 in the source; the model runs with fewer).
MAX_THREADS == 2

\* The service's cap on the length of one result list.
K == 2

\* How many times the process is started (1 = never restarted).
MaxRuns == 2

\* string.ascii_lowercase, cut down to its first two letters.
Letters == <<"a", "b">>

Workers == 1..MAX_THREADS

\* A file that does not exist.
NoFile == [exists |-> FALSE]

\* PROGRESS_FILE after open(PROGRESS_FILE, 'w') and before json.dump has
\* written its last chunk: empty, or the beginning of a JSON document.
Torn == [exists |-> TRUE, complete |-> FALSE]

\* json.load accepts the file: it exists and holds a whole JSON document.
Loadable(f) == f.exists /\ f.complete

MainThread == "main"

Unlocked == "unlocked"

(* ------------------------------- helpers ------------------------------- *)

Range(s) == {s[i] : i \in 1..Len(s)}

Min(x, y) == IF x < y THEN x ELSE y

LetterIdx(c) == CHOOSE i \in 1..Len(Letters) : Letters[i] = c

\* Python's str ordering on two strings over Letters.
RECURSIVE LexLeq(_, _)
LexLeq(u, v) ==
    IF u = <<>> THEN TRUE
    ELSE IF v = <<>> THEN FALSE
    ELSE IF Head(u) = Head(v) THEN LexLeq(Tail(u), Tail(v))
    ELSE LetterIdx(Head(u)) < LetterIdx(Head(v))

\* sorted(a_set): the list of its elements in ascending order.
RECURSIVE Sorted(_)
Sorted(S) ==
    IF S = {} THEN <<>>
    ELSE LET m == CHOOSE x \in S : \A y \in S : LexLeq(x, y)
         IN  <<m>> \o Sorted(S \ {m})

\* Every string of 1..MAX_DEPTH letters.
Prefixes == UNION {[1..n -> Range(Letters)] : n \in 1..MAX_DEPTH}

EmptyMap == [p \in {} |-> <<>>]

\* load_progress found no file, or one that json.load rejects.
NothingLoaded == [cache |-> EmptyMap, names |-> {}]

(* ------------------------- the remote service -------------------------- *)

IsPrefix(p, w) == Len(p) <= Len(w) /\ SubSeq(w, 1, Len(p)) = p

\* The reference dictionary: "a" and "ab" have K matches, every other prefix
\* fewer ("b", "ba", "aba", "abb", "bab" one, the rest none).
RefDict == << <<"a","b","a">>, <<"a","b","b">>, <<"b","a","b">> >>

\* A dictionary with an entry ("abb") that K hides from "a" and "ab": only the
\* query "abb" returns it.
DeepDict == << <<"a","b">>, <<"a","b","a">>, <<"a","b","b">> >>

\* A dictionary of one entry: only "b" has a match, and fewer than K.
TinyDict == << <<"b">> >>

Dictionaries == {RefDict, DeepDict, TinyDict}

\* The sets of queries the service may answer with a fault (429, another
\* status, or no answer at all); every other query is answered 200.
FlakySets == { {}, { <<"b">> }, { <<"a">>, <<"b">> } }

\* query(text) -> results: the first K dictionary entries that start with text.
Service(d, p) ==
    LET m == SelectSeq(d, LAMBDA w : IsPrefix(p, w))
    IN  SubSeq(m, 1, Min(K, Len(m)))

(* -------------------------------- state -------------------------------- *)

VARIABLES
    dict,             \* the service's hidden dictionary
    cache,            \* cache: prefix -> result list
    all_names,        \* all_names: set of entries
    request_queue,    \* request_queue: FIFO of prefixes
    request_counter,
    rate_limit_hits,
    results_lock,     \* holder of results_lock
    permits,          \* free permits of rate_limit_semaphore
    pc,               \* per worker: where the thread is
    prefix,           \* per worker: the prefix it dequeued
    names,            \* per worker: fetch_names' return value
    retries,          \* per worker: fetch_names' retries
    letter,           \* per worker: letters already put by process_prefix' loop
    mainpc,           \* where the main thread is
    in_finally,       \* main is in its finally block
    interrupted,      \* KeyboardInterrupt was raised in main
    progress_data,    \* save_progress' local dict (names and stats)
    progress_file,    \* PROGRESS_FILE on disk
    output_file,      \* OUTPUT_FILE on disk
    runs,             \* number of process starts so far
    flaky,            \* the queries the service may answer with a fault
    attempts,         \* per worker: requests.get calls of the current fetch_names call
    n429,             \* per worker: 429 responses in the current fetch_names call
    nfail,            \* per worker: other failed attempts in the current call
    puts,             \* per prefix: request_queue.put calls in this run
    sent,             \* prefixes for which requests.get was called in this run
    expanded,         \* prefixes whose processing entered the put loop
    failed,           \* prefixes logged "Max retries exceeded" in this run
    last_request_time,\* last_request_time, as a time stamp (see NewStamp)
    observed,         \* per worker: last_request_time as enforce_rate_limit read it
    hits_read,        \* per worker: rate_limit_hits as line 95 read it
    dump_keys,        \* save_progress: the keys of cache when json.dump began to iterate it
    exc,              \* an exception of save_progress is propagating in main
    peak_hits,        \* the largest value rate_limit_hits has had in this run
    ok_after_429,     \* the last response received in this run was a 200
    saved_ok,         \* PROGRESS_FILE has been written completely at least once
    loaded            \* what load_progress took from PROGRESS_FILE in this run

shared == <<cache, all_names, request_queue, request_counter, rate_limit_hits,
            results_lock, permits>>

wvars == <<pc, prefix, names, retries, letter, attempts, n429, nfail>>

mvars == <<mainpc, in_finally, interrupted, progress_data>>

disk == <<progress_file, output_file>>

hist == <<puts, sent, expanded, failed>>

env == <<dict, flaky>>

pacing == <<last_request_time, observed, hits_read>>

mexc == <<dump_keys, exc>>

ghost == <<peak_hits, ok_after_429, saved_ok, loaded>>

vars == <<env, shared, wvars, mvars, disk, runs, hist, pacing, mexc, ghost>>

(* ----------------------- state after module load ----------------------- *)

\* Lines 34-42, a fresh interpreter: worker threads not yet submitted.
Fresh ==
    /\ cache = EmptyMap
    /\ all_names = {}
    /\ request_queue = <<>>
    /\ request_counter = 0
    /\ rate_limit_hits = 0
    /\ results_lock = Unlocked
    /\ permits = MAX_THREADS
    /\ pc = [w \in Workers |-> "pending"]
    /\ prefix = [w \in Workers |-> <<>>]
    /\ names = [w \in Workers |-> <<>>]
    /\ retries = [w \in Workers |-> 0]
    /\ letter = [w \in Workers |-> 0]
    /\ mainpc = "load"
    /\ in_finally = FALSE
    /\ interrupted = FALSE
    /\ progress_data = NoFile
    /\ attempts = [w \in Workers |-> 0]
    /\ n429 = [w \in Workers |-> 0]
    /\ nfail = [w \in Workers |-> 0]
    /\ puts = [p \in Prefixes |-> 0]
    /\ sent = {}
    /\ expanded = {}
    /\ failed = {}
    /\ last_request_time = 0
    /\ observed = [w \in Workers |-> 0]
    /\ hits_read = [w \in Workers |-> 0]
    /\ dump_keys = {}
    /\ exc = FALSE
    /\ peak_hits = 0
    /\ ok_after_429 = FALSE
    /\ loaded = NothingLoaded

Init ==
    /\ dict \in Dictionaries
    /\ flaky \in FlakySets
    /\ Fresh
    /\ progress_file = NoFile
    /\ output_file = NoFile
    /\ runs = 1
    /\ saved_ok = FALSE

(* ------------------------------- workers ------------------------------- *)

\* worker, line 133: request_queue.get_nowait() returns the head of the queue.
Dequeue(w) ==
    /\ pc[w] = "idle"
    /\ request_queue # <<>>
    /\ prefix' = [prefix EXCEPT ![w] = Head(request_queue)]
    /\ request_queue' = Tail(request_queue)
    /\ pc' = [pc EXCEPT ![w] = "check"]
    /\ UNCHANGED <<env, pacing, mexc, ghost, cache, all_names, request_counter, rate_limit_hits,
                   results_lock, permits, names, retries, letter, attempts, n429, nfail,
                   mvars, disk, runs, hist>>

\* worker, lines 133 and 140-141: get_nowait() raises Empty, the bare except
\* breaks the loop and the thread's future becomes done.
WorkerExit(w) ==
    /\ pc[w] = "idle"
    /\ request_queue = <<>>
    /\ pc' = [pc EXCEPT ![w] = "done"]
    /\ UNCHANGED <<env, pacing, mexc, ghost, shared, prefix, names, retries, letter, attempts, n429, nfail,
                   mvars, disk, runs, hist>>

\* cache_lock is taken and released inside one step (CacheCheck, lines 68-70,
\* and Resp200, lines 89-90): between steps no thread holds it.
cache_lock == Unlocked

\* The lookup always misses: the cache is not consulted.
CacheNeverHit(c, query) == FALSE

\* fetch_names, line 69: query in cache.
CacheHit(c, query) == query \in DOMAIN c

\* fetch_names, lines 68-72: the cache lookup under cache_lock; a hit returns
\* the cached list, a miss starts the retry loop with retries = 0.
CacheCheck(w) ==
    /\ pc[w] = "check"
    /\ IF CacheHit(cache, prefix[w])
       THEN /\ names' = [names EXCEPT ![w] = cache[prefix[w]]]
            /\ pc' = [pc EXCEPT ![w] = "merge"]
       ELSE /\ names' = names
            /\ pc' = [pc EXCEPT ![w] = "attempt"]
    /\ retries' = [retries EXCEPT ![w] = 0]
    /\ attempts' = [attempts EXCEPT ![w] = 0]
    /\ n429' = [n429 EXCEPT ![w] = 0]
    /\ nfail' = [nfail EXCEPT ![w] = 0]
    /\ UNCHANGED <<env, pacing, mexc, ghost, shared, prefix, letter, mvars, disk, runs, hist>>

\* The while condition with <= for <: one attempt too many.
RetryAllowedOffByOne(r) == r <= MAX_RETRIES

\* fetch_names, line 73: the while condition.
RetryAllowed(r) == r < MAX_RETRIES

\* fetch_names, lines 73-76, and enforce_rate_limit, lines 54-59: a permit of
\* rate_limit_semaphore is taken, last_request_time is read and the thread
\* sleeps for the delay computed from it.
Acquire(w) ==
    /\ pc[w] = "attempt"
    /\ RetryAllowed(retries[w])
    /\ permits > 0
    /\ permits' = permits - 1
    /\ observed' = [observed EXCEPT ![w] = last_request_time]
    /\ pc' = [pc EXCEPT ![w] = "pacing"]
    /\ UNCHANGED <<env, last_request_time, hits_read, mexc, ghost, cache, all_names,
                   request_queue, request_counter, rate_limit_hits, results_lock,
                   prefix, names, retries, letter, attempts, n429, nfail, mvars,
                   disk, runs, hist>>

\* time.time() at line 61: a value that differs from last_request_time and
\* from every value of it that a thread still holds in enforce_rate_limit
\* (the locals of enforce_rate_limit are dead once it has returned).
\* (Time stamps are only ever compared for identity here, so the least such
\* number stands for the present time.)
NewStamp(w) ==
    LET held == {last_request_time}
                    \cup {observed[v] : v \in {u \in Workers \ {w} : pc[u] = "pacing"}}
    IN  CHOOSE n \in 1..(MAX_THREADS + 1) :
            n \notin held /\ \A m \in 1..(n - 1) : m \in held

\* enforce_rate_limit, line 61, and fetch_names, lines 77-81: after the sleep
\* last_request_time is set to the present time and requests.get is called.
Send(w) ==
    /\ pc[w] = "pacing"
    /\ last_request_time' = NewStamp(w)
    /\ observed' = [observed EXCEPT ![w] = 0]
    /\ pc' = [pc EXCEPT ![w] = "inflight"]
    /\ sent' = sent \cup {prefix[w]}
    /\ attempts' = [attempts EXCEPT ![w] = @ + 1]
    /\ UNCHANGED <<env, hits_read, mexc, ghost, cache, all_names,
                   request_queue, request_counter, rate_limit_hits, results_lock,
                   permits, prefix, names, retries, letter, n429, nfail, mvars,
                   disk, runs, puts, expanded, failed>>

\* The permit is not given back.
ReleaseLeaks(n) == n

\* fetch_names, line 75: leaving `with rate_limit_semaphore` (by return, by
\* the end of the block, or by an exception) gives the permit back.
Release(n) == n + 1

\* fetch_names, lines 82-92: status 200; the result list is cached and returned.
Resp200(w) ==
    /\ pc[w] = "inflight"
    /\ request_counter' = request_counter + 1
    /\ cache' = (prefix[w] :> Service(dict, prefix[w])) @@ cache
    /\ names' = [names EXCEPT ![w] = Service(dict, prefix[w])]
    /\ permits' = Release(permits)
    /\ pc' = [pc EXCEPT ![w] = "merge"]
    /\ ok_after_429' = TRUE
    /\ UNCHANGED <<env, pacing, mexc, peak_hits, saved_ok, loaded, all_names,
                   request_queue, rate_limit_hits, results_lock, prefix, retries,
                   letter, attempts, n429, nfail, mvars, disk, runs, hist>>

\* Line 99 left out: a 429 does not advance retries.
RetriesKeptOn429(r) == r

\* fetch_names, line 99: retries after a 429.
RetriesAfter429(r) == r + 1

\* fetch_names, lines 104 and 109: retries after another failure.
RetriesAfterFailure(r) == r + 1

\* fetch_names, lines 73 and 111-112: back to the loop test with the new
\* retries; when it fails, "Max retries exceeded" is logged and [] returned.
LoopAgain(w, r) ==
    /\ retries' = [retries EXCEPT ![w] = r]
    /\ permits' = Release(permits)
    /\ IF RetryAllowed(r)
       THEN /\ pc' = [pc EXCEPT ![w] = "attempt"]
            /\ UNCHANGED <<names, failed>>
       ELSE /\ pc' = [pc EXCEPT ![w] = "merge"]
            /\ names' = [names EXCEPT ![w] = <<>>]
            /\ failed' = failed \cup {prefix[w]}

\* get_delay_factor, line 47: the pacing target (base_delay, before the
\* jitter) for a value of rate_limit_hits, in twentieths of a second.
base_delay(hits) ==
    MIN_DELAY + ((MAX_DELAY - MIN_DELAY) * Min(hits, HITS_FOR_MAX_DELAY))
                    \div HITS_FOR_MAX_DELAY

\* fetch_names, lines 82 and 94-95: status 429; rate_limit_hits += 1 begins by
\* reading the global (no lock is held: the statement is not atomic).
Resp429(w) ==
    /\ pc[w] = "inflight"
    /\ prefix[w] \in flaky
    /\ request_counter' = request_counter + 1
    /\ hits_read' = [hits_read EXCEPT ![w] = rate_limit_hits]
    /\ pc' = [pc EXCEPT ![w] = "throttled"]
    /\ ok_after_429' = FALSE
    /\ UNCHANGED <<env, last_request_time, observed, mexc, peak_hits, saved_ok,
                   loaded, cache, all_names, request_queue, rate_limit_hits,
                   results_lock, permits, prefix, names, retries, letter,
                   attempts, n429, nfail, mvars, disk, runs, hist>>

\* fetch_names, lines 95-99: rate_limit_hits += 1 stores the value it read plus
\* one; after the backoff sleep retries is advanced and the loop goes on.
Throttled(w) ==
    /\ pc[w] = "throttled"
    /\ rate_limit_hits' = hits_read[w] + 1
    /\ peak_hits' = IF hits_read[w] + 1 > peak_hits THEN hits_read[w] + 1 ELSE peak_hits
    /\ n429' = [n429 EXCEPT ![w] = @ + 1]
    /\ hits_read' = [hits_read EXCEPT ![w] = 0]
    /\ LoopAgain(w, RetriesAfter429(retries[w]))
    /\ UNCHANGED <<env, last_request_time, observed, mexc, ok_after_429, saved_ok, loaded, cache,
                   all_names, request_queue, request_counter, results_lock,
                   prefix, letter, attempts, nfail, mvars, disk, runs, puts,
                   sent, expanded>>

\* fetch_names, lines 82 and 101-104: any other status.
RespOtherStatus(w) ==
    /\ pc[w] = "inflight"
    /\ prefix[w] \in flaky
    /\ request_counter' = request_counter + 1
    /\ nfail' = [nfail EXCEPT ![w] = @ + 1]
    /\ LoopAgain(w, RetriesAfterFailure(retries[w]))
    /\ UNCHANGED <<env, pacing, mexc, ghost, cache, all_names, request_queue, rate_limit_hits,
                   results_lock, prefix, letter, attempts, n429, mvars, disk, runs, puts,
                   sent, expanded>>

\* fetch_names, lines 106-109: requests.get raised (timeout, transport error);
\* line 82 is not reached.
RespException(w) ==
    /\ pc[w] = "inflight"
    /\ prefix[w] \in flaky
    /\ nfail' = [nfail EXCEPT ![w] = @ + 1]
    /\ LoopAgain(w, RetriesAfterFailure(retries[w]))
    /\ UNCHANGED <<env, pacing, mexc, ghost, cache, all_names, request_queue, request_counter,
                   rate_limit_hits, results_lock, prefix, letter, attempts, n429, mvars,
                   disk, runs, puts, sent, expanded>>

\* The depth test with <= for <: a prefix of MAX_DEPTH letters is expanded.
ShouldExpandOffByOne(p, ns) == ns # <<>> /\ Len(p) <= MAX_DEPTH

\* process_prefix, line 122: whether the children of prefix are enqueued.
ShouldExpand(p, ns) == ns # <<>> /\ Len(p) < MAX_DEPTH

\* process_prefix, lines 118-122 (and worker, line 139, when nothing is put):
\* the entries are merged under results_lock, then the expansion test.
Merge(w) ==
    /\ pc[w] = "merge"
    /\ results_lock = Unlocked
    /\ all_names' = all_names \cup Range(names[w])
    /\ letter' = [letter EXCEPT ![w] = 0]
    /\ IF ShouldExpand(prefix[w], names[w])
       THEN /\ pc' = [pc EXCEPT ![w] = "expand"]
            /\ expanded' = expanded \cup {prefix[w]}
       ELSE /\ pc' = [pc EXCEPT ![w] = "idle"]
            /\ expanded' = expanded
    /\ UNCHANGED <<env, pacing, mexc, ghost, cache, request_queue, request_counter, rate_limit_hits,
                   results_lock, permits, prefix, names, retries, attempts, n429, nfail,
                   mvars, disk, runs, puts, sent, failed>>

\* process_prefix, lines 123-125: one request_queue.put(prefix + letter); after
\* the last letter process_prefix returns and the worker loops (line 139).
Put(w) ==
    /\ pc[w] = "expand"
    /\ LET new_prefix == Append(prefix[w], Letters[letter[w] + 1])
       IN  /\ request_queue' = Append(request_queue, new_prefix)
           /\ puts' = [puts EXCEPT ![new_prefix] = @ + 1]
    /\ letter' = [letter EXCEPT ![w] = @ + 1]
    /\ pc' = [pc EXCEPT ![w] = IF letter[w] + 1 = Len(Letters) THEN "idle" ELSE "expand"]
    /\ UNCHANGED <<env, pacing, mexc, ghost, cache, all_names, request_counter, rate_limit_hits,
                   results_lock, permits, prefix, names, retries, attempts, n429, nfail,
                   mvars, disk, runs, sent, expanded, failed>>

WorkerStep(w) ==
    \/ Dequeue(w)
    \/ WorkerExit(w)
    \/ CacheCheck(w)
    \/ Acquire(w)
    \/ Send(w)
    \/ Resp200(w)
    \/ Merge(w)
    \/ Put(w)

WorkerFault(w) ==
    \/ Resp429(w)
    \/ Throttled(w)
    \/ RespOtherStatus(w)
    \/ RespException(w)

(* ----------------------------- main thread ----------------------------- *)

\* load_progress, lines 160-174: names, cache and the two counters are taken
\* from PROGRESS_FILE; a missing file (FileNotFoundError) or one that is not a
\* whole JSON document (JSONDecodeError) leaves the fresh state.
LoadProgress ==
    /\ mainpc = "load"
    /\ IF ~Loadable(progress_file)
       THEN /\ UNCHANGED <<all_names, cache, request_counter, rate_limit_hits>>
            /\ loaded' = NothingLoaded
            /\ peak_hits' = peak_hits
       ELSE /\ all_names' = all_names \cup Range(progress_file.names)
            /\ cache' = progress_file.cache @@ cache
            /\ request_counter' = progress_file.requests
            /\ rate_limit_hits' = progress_file.rate_limit_hits
            /\ loaded' = [cache |-> progress_file.cache,
                          names |-> Range(progress_file.names)]
            /\ peak_hits' = progress_file.rate_limit_hits
    /\ mainpc' = "seed"
    /\ UNCHANGED <<env, pacing, mexc, ok_after_429, saved_ok, request_queue,
                   results_lock, permits, wvars, in_finally, interrupted,
                   progress_data, disk, runs, hist>>

\* generate_initial_prefixes, lines 176-182: the one-letter prefixes, then the
\* two-letter ones, first letter outermost.
generate_initial_prefixes ==
    LET n == Len(Letters)
    IN  [i \in 1..n |-> <<Letters[i]>>]
        \o [k \in 1..(n * n) |->
               <<Letters[((k - 1) \div n) + 1], Letters[((k - 1) % n) + 1]>>]

\* main, lines 188-191: the initial prefixes that are not cached are put.
Seed ==
    /\ mainpc = "seed"
    /\ LET todo == SelectSeq(generate_initial_prefixes,
                             LAMBDA p : p \notin DOMAIN cache)
       IN  /\ request_queue' = request_queue \o todo
           /\ puts' = [p \in Prefixes |->
                          IF p \in Range(todo) THEN puts[p] + 1 ELSE puts[p]]
    /\ mainpc' = "submit"
    /\ UNCHANGED <<env, pacing, mexc, ghost, cache, all_names, request_counter, rate_limit_hits,
                   results_lock, permits, wvars, in_finally, interrupted,
                   progress_data, disk, runs, sent, expanded, failed>>

\* main, lines 196-200: MAX_THREADS workers are submitted to the executor.
Submit ==
    /\ mainpc = "submit"
    /\ pc' = [w \in Workers |-> "idle"]
    /\ mainpc' = "loop"
    /\ UNCHANGED <<env, pacing, mexc, ghost, shared, prefix, names, retries, letter, attempts, n429, nfail,
                   in_finally, interrupted, progress_data, disk, runs,
                   hist>>

\* any() for all(): one finished worker is taken for all of them.
AnyFutureDone == \E w \in Workers : pc[w] = "done"

\* main, line 203, right operand: all(f.done() for f in futures).
AllFuturesDone == \A w \in Workers : pc[w] = "done"

\* main, line 203, left operand: request_queue.empty(); when it is false the
\* save is not due (line 207) and main sleeps (line 211).
CheckQueue ==
    /\ mainpc = "loop"
    /\ mainpc' = IF request_queue = <<>> THEN "check_done" ELSE "loop"
    /\ UNCHANGED <<env, pacing, mexc, ghost, shared, wvars, in_finally, interrupted, progress_data,
                   disk, runs, hist>>

\* main, lines 203-204 and 216: with both operands true the loop is left and
\* the finally block entered; otherwise as above.
CheckDone ==
    /\ mainpc = "check_done"
    /\ IF AllFuturesDone
       THEN /\ mainpc' = "save"
            /\ in_finally' = TRUE
       ELSE /\ mainpc' = "loop"
            /\ in_finally' = in_finally
    /\ UNCHANGED <<env, pacing, mexc, ghost, shared, wvars, interrupted, progress_data, disk, runs, hist>>

\* main, lines 203 and 207-208: the completion check fails (at either operand)
\* and BATCH_SAVE_INTERVAL has passed: save_progress is called.
SaveDue ==
    /\ \/ mainpc = "loop" /\ request_queue # <<>>
       \/ mainpc = "check_done" /\ ~AllFuturesDone
    /\ mainpc' = "save"
    /\ UNCHANGED <<env, pacing, mexc, ghost, shared, wvars, in_finally, interrupted, progress_data,
                   disk, runs, hist>>

\* save_progress, lines 145-156: results_lock is taken, progress_data built
\* from all_names and the counters ('cache' is a reference to the live dict),
\* and open(PROGRESS_FILE, 'w') truncates the file.
SaveBegin ==
    /\ mainpc = "save"
    /\ results_lock = Unlocked
    /\ results_lock' = MainThread
    /\ progress_data' = [exists |-> TRUE,
                         names |-> Sorted(all_names),
                         requests |-> request_counter,
                         rate_limit_hits |-> rate_limit_hits]
    /\ progress_file' = Torn
    /\ mainpc' = "dump"
    /\ UNCHANGED <<env, pacing, mexc, ghost, cache, all_names, request_queue, request_counter,
                   rate_limit_hits, permits, wvars, in_finally, interrupted,
                   output_file, runs, hist>>

\* save_progress, line 157: json.dump has written the 'names' list chunk by
\* chunk and begins to iterate the live cache dict.
SaveIterate ==
    /\ mainpc = "dump"
    /\ dump_keys' = DOMAIN cache
    /\ mainpc' = "dump_cache"
    /\ UNCHANGED <<env, pacing, exc, ghost, shared, wvars, in_finally, interrupted,
                   progress_data, disk, runs, hist>>

\* save_progress, lines 157-158: json.dump reaches the end of the cache and
\* writes the counters; the file is closed and results_lock released. (No key
\* was added to cache since the iteration began, or cache was empty then and
\* was written as {} without being iterated.)
SaveDump ==
    /\ mainpc = "dump_cache"
    /\ dump_keys = {} \/ DOMAIN cache = dump_keys
    /\ progress_file' = [exists |-> TRUE,
                         complete |-> TRUE,
                         names |-> progress_data.names,
                         cache |-> [p \in dump_keys |-> cache[p]],
                         requests |-> progress_data.requests,
                         rate_limit_hits |-> progress_data.rate_limit_hits]
    /\ saved_ok' = TRUE
    /\ dump_keys' = {}
    /\ progress_data' = NoFile
    /\ results_lock' = Unlocked
    /\ mainpc' = IF in_finally THEN "output" ELSE "loop"
    /\ UNCHANGED <<env, pacing, exc, peak_hits, ok_after_429, loaded, cache,
                   all_names, request_queue, request_counter, rate_limit_hits,
                   permits, wvars, in_finally, interrupted, output_file, runs, hist>>

\* save_progress, line 157, and main, lines 207-223: a worker has added a key
\* to cache (line 90, under cache_lock only) while json.dump iterates it: the
\* iteration raises RuntimeError. The file is closed as far as it was written
\* and results_lock is released. Raised by the periodic save, the exception
\* passes the except clause of line 213 and the finally block runs; raised in
\* the finally block, it skips the rest of the block (lines 219-223).
SaveRaise ==
    /\ mainpc = "dump_cache"
    /\ dump_keys # {}
    /\ DOMAIN cache # dump_keys
    /\ exc' = TRUE
    /\ dump_keys' = {}
    /\ progress_data' = NoFile
    /\ results_lock' = Unlocked
    /\ in_finally' = TRUE
    /\ mainpc' = IF in_finally THEN "shutdown" ELSE "save"
    /\ UNCHANGED <<env, pacing, ghost, cache, all_names, request_queue,
                   request_counter, rate_limit_hits, permits, wvars, interrupted,
                   disk, runs, hist>>

\* main, lines 213-216: KeyboardInterrupt in the wait loop (at the completion
\* check or in the sleep); the handler logs and the finally block is entered.
Interrupt ==
    /\ mainpc \in {"loop", "check_done"}
    /\ interrupted' = TRUE
    /\ in_finally' = TRUE
    /\ mainpc' = "save"
    /\ UNCHANGED <<env, pacing, mexc, ghost, shared, wvars, progress_data, disk, runs, hist>>

\* main, lines 221-223: OUTPUT_FILE gets sorted(all_names).
WriteOutput ==
    /\ mainpc = "output"
    /\ output_file' = [exists |-> TRUE, names |-> Sorted(all_names)]
    /\ mainpc' = "shutdown"
    /\ UNCHANGED <<env, pacing, mexc, ghost, shared, wvars, in_finally, interrupted, progress_data,
                   progress_file, runs, hist>>

\* main, line 196: leaving the with block is executor.shutdown(wait=True); the
\* process ends when every worker has returned.
Shutdown ==
    /\ mainpc = "shutdown"
    /\ \A w \in Workers : pc[w] = "done"
    /\ mainpc' = "exit"
    /\ UNCHANGED <<env, pacing, mexc, ghost, shared, wvars, in_finally, interrupted, progress_data,
                   disk, runs, hist>>

MainStep ==
    \/ LoadProgress
    \/ Seed
    \/ Submit
    \/ CheckQueue
    \/ CheckDone
    \/ SaveBegin
    \/ SaveIterate
    \/ SaveDump
    \/ WriteOutput
    \/ Shutdown

(* ------------------------------- restart ------------------------------- *)

\* The process ends (it exited, or was killed at any point) and the script is
\* started again: a fresh interpreter (lines 34-42) with the files left on disk.
Restart ==
    /\ runs < MaxRuns
    /\ runs' = runs + 1
    /\ cache' = EmptyMap
    /\ all_names' = {}
    /\ request_queue' = <<>>
    /\ request_counter' = 0
    /\ rate_limit_hits' = 0
    /\ results_lock' = Unlocked
    /\ permits' = MAX_THREADS
    /\ pc' = [w \in Workers |-> "pending"]
    /\ prefix' = [w \in Workers |-> <<>>]
    /\ names' = [w \in Workers |-> <<>>]
    /\ retries' = [w \in Workers |-> 0]
    /\ letter' = [w \in Workers |-> 0]
    /\ mainpc' = "load"
    /\ in_finally' = FALSE
    /\ interrupted' = FALSE
    /\ progress_data' = NoFile
    /\ attempts' = [w \in Workers |-> 0]
    /\ n429' = [w \in Workers |-> 0]
    /\ nfail' = [w \in Workers |-> 0]
    /\ puts' = [p \in Prefixes |-> 0]
    /\ sent' = {}
    /\ expanded' = {}
    /\ failed' = {}
    /\ last_request_time' = 0
    /\ observed' = [w \in Workers |-> 0]
    /\ hits_read' = [w \in Workers |-> 0]
    /\ dump_keys' = {}
    /\ exc' = FALSE
    /\ peak_hits' = 0
    /\ ok_after_429' = FALSE
    /\ loaded' = NothingLoaded
    /\ UNCHANGED <<env, output_file, saved_ok>>
    /\ progress_file' = progress_file

(* ---------------------------- specifications --------------------------- *)

\* Every step of the program and of its environment.
Next ==
    \/ MainStep
    \/ SaveDue
    \/ SaveRaise
    \/ Interrupt
    \/ Restart
    \/ \E w \in Workers : WorkerStep(w)
    \/ \E w \in Workers : WorkerFault(w)

Spec == Init /\ [][Next]_vars

\* The specifications below fix the service (its dictionary and its flaky
\* queries) and leave out the steps of the environment they do not study.

InitRef == Init /\ dict = RefDict /\ flaky = {}

InitDeep == Init /\ dict = DeepDict /\ flaky = {}

InitTiny == Init /\ dict = TinyDict /\ flaky = {}

InitFlaky == Init /\ dict = TinyDict /\ flaky = { <<"b">> }

\* One run against a service that always answers 200, never interrupted.
NextCrawl ==
    \/ MainStep
    \/ \E w \in Workers : WorkerStep(w)

SpecCrawl == InitRef /\ [][NextCrawl]_vars

SpecCrawlDeep == InitDeep /\ [][NextCrawl]_vars

NextInterrupt == NextCrawl \/ Interrupt \/ SaveRaise

SpecInterrupt == InitTiny /\ [][NextInterrupt]_vars

NextFaults == NextCrawl \/ \E w \in Workers : WorkerFault(w)

SpecFaults == InitFlaky /\ [][NextFaults]_vars

\* One run against a service that may answer 429 to the queries "a" and "b".
InitThrottle == Init /\ dict = TinyDict /\ flaky = { <<"a">>, <<"b">> }

NextThrottle ==
    \/ NextCrawl
    \/ \E w \in Workers : Resp429(w) \/ Throttled(w)

SpecThrottle == InitThrottle /\ [][NextThrottle]_vars

\* One run with periodic checkpoints, never interrupted.
NextPeriodic == NextCrawl \/ SaveDue \/ SaveRaise

SpecPeriodic == InitTiny /\ [][NextPeriodic]_vars

\* The process is killed while save_progress is writing PROGRESS_FILE, after
\* an earlier checkpoint had been written completely.
KilledDuringSave ==
    runs = 1 /\ saved_ok /\ mainpc \in {"dump", "dump_cache"}

\* A first run with periodic checkpoints that may be killed in the middle of
\* the second or a later one, and then a second run.
NextCrash ==
    \/ NextCrawl
    \/ runs = 1 /\ (SaveDue \/ SaveRaise)
    \/ KilledDuringSave /\ Restart

SpecCrash == InitTiny /\ [][NextCrash]_vars

\* One run with periodic checkpoints against a service whose answer to "b" may
\* fail to arrive (timeout, transport error).
NextLocks ==
    \/ NextPeriodic
    \/ \E w \in Workers : RespException(w)

SpecLocks == InitFlaky /\ [][NextLocks]_vars

\* The process was killed right after its periodic checkpoint was written.
KilledAfterCheckpoint ==
    runs = 1 /\ Loadable(progress_file) /\ ~in_finally /\ mainpc = "loop"

\* A first run that is either left alone or killed right after one periodic
\* checkpoint, and then a second run from the files the first one left.
NextResume ==
    \/ ~KilledAfterCheckpoint /\ NextCrawl
    \/ runs = 1 /\ SaveDue
    \/ runs = 1 /\ SaveRaise
    \/ KilledAfterCheckpoint /\ Restart

SpecResume == InitTiny /\ [][NextResume]_vars

(* -------------------------------- claims ------------------------------- *)

Children(p) == {Append(p, Letters[i]) : i \in 1..Len(Letters)}

\* What one uninterrupted run against a service that always answers finds: a
\* prefix is queried when it is an initial prefix or when its parent was
\* queried and expanded; the entries are those of the queried prefixes.
RECURSIVE IsCrawled(_, _)
IsCrawled(d, p) ==
    \/ Len(p) <= 2
    \/ LET parent == SubSeq(p, 1, Len(p) - 1)
       IN  IsCrawled(d, parent) /\ ShouldExpand(parent, Service(d, parent))

UninterruptedEntries(d) ==
    UNION {Range(Service(d, p)) : p \in {q \in Prefixes : IsCrawled(d, q)}}

\* One run, left alone, ends with UninterruptedEntries in OUTPUT_FILE.
UninterruptedRunFindsAll ==
    (mainpc = "exit" /\ runs = 1 /\ flaky = {} /\ ~interrupted /\ ~exc)
        => Range(output_file.names) = UninterruptedEntries(dict)

\* C1: expansion is exact. Every prefix whose processing put children on the
\* queue had a result list of exactly K entries; a result of fewer than K
\* entries, empty or not, never leads to a put.
C1_ExpansionIsExact ==
    \A p \in expanded : Len(Service(dict, p)) = K

\* C2: resume equivalence. Whenever a process ends normally, whether it
\* started from nothing or from a checkpoint that an earlier process wrote in
\* the middle of its run, its entry set is the one an uninterrupted run finds.
C2_ResumeEquivalence ==
    (mainpc = "exit" /\ ~interrupted /\ ~exc)
        => /\ all_names = UninterruptedEntries(dict)
           /\ Range(output_file.names) = UninterruptedEntries(dict)

\* C3: one live request per prefix. No two workers have a request in flight
\* for the same prefix, and no request is in flight for a prefix whose result
\* an earlier request of this run has already put in the cache.
C3_OneLiveRequestPerPrefix ==
    /\ \A w1, w2 \in Workers :
           (w1 # w2 /\ pc[w1] = "inflight" /\ pc[w2] = "inflight")
               => prefix[w1] # prefix[w2]
    /\ \A w \in Workers : pc[w] = "inflight" => prefix[w] \notin DOMAIN cache

\* C4: race-free completion. Once main has left its wait loop through the
\* completion check, the queue is empty, every worker has returned (so nothing
\* is put any more), and every child of every expanded prefix has been put.
C4_RaceFreeCompletion ==
    (in_finally /\ ~interrupted /\ ~exc)
        => /\ request_queue = <<>>
           /\ \A w \in Workers : pc[w] = "done"
           /\ \A p \in expanded : \A c \in Children(p) : puts[c] >= 1

\* A run that expanded a prefix was declared complete and went on to exit.
C4_Witness ==
    mainpc = "exit" /\ ~interrupted /\ ~exc /\ expanded # {}

\* The service of the reference scenario: exactly K results for "a" and "ab",
\* fewer than K for every other prefix.
IsReferenceService(d) ==
    \A p \in Prefixes :
        Len(Service(d, p)) = K <=> p \in { <<"a">>, <<"a","b">> }

RefQueried ==
    {p \in Prefixes : Len(p) <= 2} \cup Children(<<"a","b">>)

\* C5: the reference scenario. Against a reference service the prefixes
\* queried over the network are exactly a, b, aa, ab, ba, bb, aba, abb, and
\* the run ends with the union of the returned entries.
C5_ReferenceScenario ==
    IsReferenceService(dict)
        => /\ sent \subseteq RefQueried
           /\ mainpc = "exit"
                  => /\ sent = RefQueried
                     /\ all_names = UNION {Range(Service(dict, p)) : p \in RefQueried}

\* C6: frontier items are unique. No prefix is put on the queue more than once
\* in one run.
C6_FrontierItemsUnique ==
    \A p \in Prefixes : puts[p] <= 1

\* C7: cooperative cancellation. After the interrupt no worker takes a prefix
\* from the queue.
C7_NoDequeueAfterInterrupt ==
    [][interrupted => \A w \in Workers : ~(pc[w] = "idle" /\ pc'[w] = "check")]_vars

\* C8: the final artifact on interrupt. When the process exits after an
\* interrupt, the final checkpoint and OUTPUT_FILE hold exactly the entry set
\* as it is at exit.
C8_FinalArtifactOnInterrupt ==
    (mainpc = "exit" /\ interrupted /\ ~exc)
        => /\ output_file.exists
           /\ Range(output_file.names) = all_names
           /\ Loadable(progress_file)
           /\ Range(progress_file.names) = all_names

\* The current fetch_names call of w has returned after failing every attempt.
GaveUp(w) ==
    /\ pc[w] \in {"merge", "idle"}
    /\ attempts[w] > 0
    /\ n429[w] + nfail[w] = attempts[w]

\* C9: retry exhaustion is not fatal. One fetch_names call makes at most
\* MAX_RETRIES requests; the step in which it gives up returns [] and changes
\* neither the cache nor the entry set; the merge that follows changes neither
\* and takes the worker back to get_nowait.
C9_RetryExhaustionNotFatal ==
    /\ [](\A w \in Workers : attempts[w] <= MAX_RETRIES)
    /\ [][\A w \in Workers :
             /\ (pc[w] \in {"inflight", "throttled"} /\ pc'[w] = "merge"
                    /\ n429'[w] + nfail'[w] = attempts'[w])
                 => /\ attempts[w] = MAX_RETRIES
                    /\ names'[w] = <<>>
                    /\ cache' = cache
                    /\ all_names' = all_names
             /\ (GaveUp(w) /\ pc[w] = "merge" /\ pc'[w] # "merge")
                 => /\ pc'[w] = "idle"
                    /\ cache' = cache
                    /\ all_names' = all_names
                    /\ request_queue' = request_queue]_vars

\* A worker gave up on a prefix after MAX_RETRIES attempts, merged nothing,
\* and is back at get_nowait with prefixes left on the queue.
C9_Witness ==
    \E w \in Workers :
        /\ GaveUp(w)
        /\ attempts[w] = MAX_RETRIES
        /\ pc[w] = "idle"
        /\ prefix[w] \in failed
        /\ prefix[w] \notin DOMAIN cache
        /\ request_queue # <<>>

\* C10 as claimed: retries counts only the failures that are not 429s, so it
\* is never advanced by a rate-limit response.
C10_429KeepsRetryBudget ==
    \A w \in Workers : retries[w] = nfail[w]

\* C10 as the code has it: every failed attempt, a 429 like any other,
\* advances retries by one, so retries is the number of failed attempts.
C10_429CountsAsRetry ==
    /\ [](\A w \in Workers : retries[w] = n429[w] + nfail[w])
    /\ [][\A w \in Workers :
             n429'[w] = n429[w] + 1 => retries'[w] = retries[w] + 1]_vars

\* A prefix was given up after MAX_RETRIES rate-limit responses and no other
\* failure.
C10_Witness ==
    \E w \in Workers :
        /\ GaveUp(w)
        /\ n429[w] = MAX_RETRIES
        /\ nfail[w] = 0
        /\ prefix[w] \in failed

\* C11 as claimed: every throttle event raises the pacing target. The step
\* that completes line 95 for a 429 leaves base_delay strictly greater than
\* it was before the step.
C11_ThrottleRaisesTarget ==
    [][\A w \in Workers :
          (pc[w] = "throttled" /\ pc'[w] # "throttled")
              => base_delay(rate_limit_hits') > base_delay(rate_limit_hits)]_vars

\* C12 as claimed: the pacing target relaxes. A run that was throttled and
\* whose requests succeeded afterwards ends with a pacing target below the
\* highest one it had.
C12_PacingTargetRelaxes ==
    (mainpc = "exit" /\ peak_hits > 0 /\ ok_after_429)
        => base_delay(rate_limit_hits) < base_delay(peak_hits)

\* C13 as claimed: the checkpoint is atomic. When the process starts,
\* PROGRESS_FILE is absent or a whole checkpoint, and it is a whole checkpoint
\* if one was ever written completely.
C13_AtomicCheckpoint ==
    mainpc = "load"
        => /\ ~progress_file.exists \/ Loadable(progress_file)
           /\ saved_ok => Loadable(progress_file)

\* A process started from a checkpoint has issued requests, finished, and had
\* loaded both entries and cached prefixes.
C14_Witness ==
    /\ runs = 2
    /\ mainpc = "exit"
    /\ loaded.names # {}
    /\ DOMAIN loaded.cache # {}
    /\ sent # {}
    /\ output_file.exists

\* C14: resume is strictly additive. In a run no request is sent for a prefix
\* of the loaded cache, every loaded entry stays in the entry set, and the
\* final artifact of the run holds every loaded entry.
C14_ResumeIsAdditive ==
    /\ sent \cap DOMAIN loaded.cache = {}
    /\ loaded.names \subseteq all_names
    /\ (mainpc \in {"shutdown", "exit"} /\ output_file.exists)
           => loaded.names \subseteq Range(output_file.names)

\* C15 as claimed: a failing periodic save does not disturb the crawl. When
\* save_progress raises in the periodic save main is back in its wait loop,
\* and a process that ends has written the final checkpoint and OUTPUT_FILE.
C15_SaveFailureKeepsCrawling ==
    /\ [][(mainpc = "dump_cache" /\ ~in_finally /\ exc') => mainpc' = "loop"]_vars
    /\ [](mainpc = "exit" => Loadable(progress_file) /\ output_file.exists)

\* C16 as claimed, its safety part: a run that has ended has all its workers
\* returned and OUTPUT_FILE written.
C16_RunEndsWithArtifact ==
    mainpc = "exit"
        => /\ \A w \in Workers : pc[w] = "done"
           /\ output_file.exists

\* The locks thread t holds (t a worker or MainThread).
LocksHeld(t) ==
    {l \in {"cache_lock", "results_lock"} :
        \/ l = "cache_lock" /\ cache_lock = t
        \/ l = "results_lock" /\ results_lock = t}

\* C17 as claimed: lock discipline. A worker with a request in flight holds no
\* lock, main holds no lock while it writes PROGRESS_FILE, and so no worker
\* waits for results_lock during the write.
C17_LockDiscipline ==
    /\ \A w \in Workers : pc[w] = "inflight" => LocksHeld(w) = {}
    /\ mainpc \in {"dump", "dump_cache"} => LocksHeld(MainThread) = {}
    /\ mainpc \in {"dump", "dump_cache"}
           => ~\E w \in Workers : pc[w] = "merge" /\ results_lock # Unlocked

\* C18 as claimed: pacing state is updated under mutual exclusion. No two
\* workers are between the read and the write of last_request_time holding the
\* same observed value.
C18_PacingIsExclusive ==
    \A w1, w2 \in Workers :
        (w1 # w2 /\ pc[w1] = "pacing" /\ pc[w2] = "pacing")
            => observed[w1] # observed[w2]

\* The prefixes on the frontier, in the cache, or being processed by a worker.
LivePrefixes ==
    Range(request_queue) \cup DOMAIN cache
        \cup {prefix[w] : w \in {v \in Workers :
                  pc[v] \in {"check", "attempt", "pacing", "inflight",
                             "throttled", "merge", "expand"}}}

\* C19: the depth bound. Every live prefix has 1..MAX_DEPTH letters; only
\* prefixes shorter than MAX_DEPTH are expanded; the put loop puts prefix + c
\* for the letters c in order and, unless the process is killed, ends only
\* after the last letter.
C19_DepthBound ==
    /\ [](\A p \in LivePrefixes : Len(p) >= 1 /\ Len(p) <= MAX_DEPTH)
    /\ [](\A p \in expanded : Len(p) < MAX_DEPTH)
    /\ [][\A w \in Workers :
             (pc[w] = "expand" /\ runs' = runs)
                 => /\ letter'[w] = letter[w] + 1
                        => request_queue'[Len(request_queue')]
                               = Append(prefix[w], Letters[letter'[w]])
                    /\ pc'[w] # "expand" => letter'[w] = Len(Letters)]_vars

\* A prefix of MAX_DEPTH letters with a non-empty result was processed and not
\* expanded, and a shorter prefix was expanded to the last letter.
C19_Witness ==
    /\ \E w \in Workers :
           /\ pc[w] = "idle"
           /\ Len(prefix[w]) = MAX_DEPTH
           /\ names[w] # <<>>
           /\ prefix[w] \notin expanded
    /\ \E p \in expanded : \A c \in Children(p) : puts[c] >= 1

\* C20 as claimed: a checkpoint is self-consistent. Every entry of every
\* result list in the cache of PROGRESS_FILE is in its names list.
C20_CheckpointSelfConsistent ==
    Loadable(progress_file)
        => \A p \in DOMAIN progress_file.cache :
               Range(progress_file.cache[p]) \subseteq Range(progress_file.names)

\* C21 as claimed: the worker pool stays full while work remains. A worker
\* returns only when the queue is empty and no other worker is processing a
\* prefix, so whenever a worker has returned there is no work left anywhere.
C21_PoolStaysFull ==
    /\ [][\A w \in Workers :
             (pc[w] = "idle" /\ pc'[w] = "done")
                 => /\ request_queue = <<>>
                    /\ \A v \in Workers \ {w} : pc[v] \in {"idle", "done"}]_vars
    /\ []((\E w \in Workers : pc[w] = "done")
             => /\ request_queue = <<>>
                /\ \A v \in Workers : pc[v] \in {"idle", "done"})

\* The workers inside `with rate_limit_semaphore` (lines 75-104).
PermitHolders == {w \in Workers : pc[w] \in {"pacing", "inflight", "throttled"}}

\* w is at line 75 and no permit is free.
WaitsForPermit(w) ==
    pc[w] = "attempt" /\ RetryAllowed(retries[w]) /\ permits = 0

\* w is at line 118 and results_lock is taken.
WaitsForResultsLock(w) == pc[w] = "merge" /\ results_lock # Unlocked

\* C22: deadlock freedom. The permits out are exactly those of the workers
\* inside the with block, results_lock is held exactly while main is in
\* save_progress' with block, cache_lock is free between steps; every worker
\* that has not returned can take a step, or waits for a permit or for
\* results_lock while its holder can take a step; when the process ends all
\* permits are back and no lock is held.
C22_DeadlockFree ==
    /\ permits + Cardinality(PermitHolders) = MAX_THREADS
    /\ cache_lock = Unlocked
    /\ results_lock \in {Unlocked, MainThread}
    /\ results_lock = MainThread <=> mainpc \in {"dump", "dump_cache"}
    /\ \A w \in Workers :
           pc[w] \notin {"pending", "done"}
               => \/ ENABLED (WorkerStep(w) \/ WorkerFault(w))
                  \/ /\ WaitsForPermit(w)
                     /\ \E v \in PermitHolders :
                            ENABLED (Send(v) \/ Resp200(v) \/ Throttled(v))
                  \/ /\ WaitsForResultsLock(w)
                     /\ ENABLED (SaveIterate \/ SaveDump \/ SaveRaise)
    /\ mainpc = "exit" => permits = MAX_THREADS /\ results_lock = Unlocked

\* A worker waits for results_lock while main writes the checkpoint, after a
\* prefix was given up when every attempt had raised, and while another
\* worker holds a permit.
C22_Witness ==
    /\ \E w \in Workers : WaitsForResultsLock(w)
    /\ mainpc \in {"dump", "dump_cache"}
    /\ failed # {}
    /\ PermitHolders # {}

====
